---- MODULE Spec2Model ----
(***************************************************************************)
(* A model of two programs of the AST-Merging-Evaluation pipeline:         *)
(*   - cache_merger.py: merge_caches and the helpers it calls, run over a  *)
(*     small file system (specification Spec);                             *)
(*   - test_repo_heads.py: head_passes_tests run by a multiprocessing pool *)
(*     and collected by pool.imap (specification SpecExec).                *)
(***************************************************************************)
EXTENDS Integers, Sequences, FiniteSets, TLC

\* ------------------------------------------------------------------ bounds
MaxCaches == 2      \* at most this many source caches on the command line
MaxFiles == 3       \* at most this many files on disk before the first merge
MaxCalls == 2       \* merge_caches is run at most this many times in a row

\* ------------------------------------------------------- the file system
\* A path is the sequence of its parts (pathlib's Path.parts); a file system is
\* a function from the paths of the existing files to their contents.
RootNames == <<"A", "B", "C", "D">>
Names == {"x.json", "f.bin", "w.lock"}
Keys == {"k1", "k2"}
None == "none"

\* Path.suffix of a file name.
Suffix(name) ==
  CASE name = "x.json" -> ".json"
    [] name = "f.bin" -> ".bin"
    [] name = "w.lock" -> ".lock"
    [] OTHER -> ""

PathSuffix(path) == Suffix(path[Len(path)])

NoKeys == [k \in Keys |-> None]
\* What json.load returns for a file: a JSON object ("obj"), a JSON array of
\* [key, value] pairs ("pairs"), a JSON number ("num"); "bytes" is a blob.
Obj(m) == [kind |-> "obj", map |-> m, raw |-> ""]
Pairs(m) == [kind |-> "pairs", map |-> m, raw |-> ""]
Num == [kind |-> "num", map |-> NoKeys, raw |-> ""]
Bytes(b) == [kind |-> "bytes", map |-> NoKeys, raw |-> b]
\* A file whose open() raises (no read permission).
Unreadable == [kind |-> "unreadable", map |-> NoKeys, raw |-> ""]

J1 == Obj([k \in Keys |-> IF k = "k1" THEN "v1" ELSE None])
J2 == Obj([k \in Keys |-> IF k = "k1" THEN "v2" ELSE "v3"])
JP == Pairs([k \in Keys |-> IF k = "k2" THEN "v4" ELSE None])

ContentsFor(name) ==
  CASE Suffix(name) = ".json" -> {J1, J2, JP, Num}
    [] Suffix(name) = ".bin" -> {Bytes("b1"), Bytes("b2"), Unreadable}
    [] OTHER -> {Bytes("")}

VARIABLES
  fs,            \* the file system
  fs0,           \* the file system before the first merge
  fsCallStart,   \* the file system when the last merge_caches call started
  caches,        \* the source caches S1..Sn, in command-line order
  output_cache,  \* the output cache directory
  mode,          \* "joint": merge_caches(caches) each time; "each": one source per call
  call,          \* number of merge_caches calls started
  callCaches,    \* the caches argument of the running call
  ci,            \* index in callCaches of the cache being walked (0: none yet)
  pending,       \* files of the walked cache that rglob has not yielded yet
  status         \* "idle", "walking", "aborted" (an exception left merge_caches)

mvars == <<fs, fs0, fsCallStart, caches, output_cache, mode, call, callCaches,
           ci, pending, status>>

\* test_repo_heads.py
VARIABLES
  tasks,         \* the rows of the input csv: [repository, head_hash]
  processes,     \* the size of the pool
  tpc,           \* where each task is in head_passes_tests
  row,           \* the row each task returned: [result, fingerprint]
  test_state,    \* what checkout_and_test returned to each task
  disk,          \* the repository working directories that exist
  extcalls,      \* calls each task made to Repository and its methods
  main,          \* the parent: "collecting", "crashed", "written", "no_pass"
  collected      \* results the parent has taken from pool.imap

evars == <<tasks, processes, tpc, row, test_state, disk, extcalls, main, collected>>

vars == <<mvars, evars>>

\* --------------------------------------------------------- cache_merger.py
\* dict.update(json.load(f)): a mapping or an iterable of pairs both update.
Updatable(c) == c.kind \in {"obj", "pairs"}

DictUpdate(data, c) == [k \in Keys |-> IF c.map[k] # None THEN c.map[k] ELSE data[k]]

RECURSIVE LoadAll(_, _, _)
LoadAll(f, paths, data) ==
  IF paths = <<>> THEN data
  ELSE LoadAll(f, Tail(paths), DictUpdate(data, f[Head(paths)]))

\* merge_json_data raises when a file cannot be opened or when some json.load
\* result cannot update a dict.
JsonRaises(f, paths) == \E i \in 1..Len(paths) : ~Updatable(f[paths[i]])

\* merge_json_data with the output opened in append mode ("a" for "w"): the
\* merged object is written after what the file already holds.
merge_json_data_append(f, paths, output_path) ==
  IF output_path \in DOMAIN f
  THEN (output_path :> [kind |-> "appended", map |-> LoadAll(f, paths, NoKeys),
                        raw |-> "", before |-> f[output_path]]) @@ f
  ELSE (output_path :> Obj(LoadAll(f, paths, NoKeys))) @@ f

merge_json_data(f, paths, output_path) ==
  (output_path :> Obj(LoadAll(f, paths, NoKeys))) @@ f

copy_file(f, source, destination) ==
  IF destination \in DOMAIN f THEN f ELSE (destination :> f[source]) @@ f

\* shutil.copy raises when it is reached and the source cannot be opened.
CopyRaises(f, source, destination) ==
  destination \notin DOMAIN f /\ f[source].kind = "unreadable"

\* Path(*path.parts[1:])
RelativePath(path) == Tail(path)

OtherCaches(cs, cache) == SelectSeq(cs, LAMBDA c : c # cache)

CorrespondingPaths(f, others, relative_path) ==
  SelectSeq([i \in 1..Len(others) |-> others[i] \o relative_path],
            LAMBDA p : p \in DOMAIN f)

\* directory.rglob("*") filtered by is_file()
FilesUnder(f, directory) ==
  {p \in DOMAIN f : /\ Len(p) > Len(directory)
                    /\ SubSeq(p, 1, Len(directory)) = directory}

\* The body of the loop of process_directory for one file.
ProcessFile(f, cs, cache, out, path) ==
  IF PathSuffix(path) = ".json"
  THEN merge_json_data(f, <<path>> \o CorrespondingPaths(f, OtherCaches(cs, cache),
                                                          RelativePath(path)),
                       out \o RelativePath(path))
  ELSE IF PathSuffix(path) # ".lock"
  THEN copy_file(f, path, out \o RelativePath(path))
  ELSE f

\* process_directory run to its end over the files in todo, when nothing raises.
RECURSIVE process_directory(_, _, _, _, _)
process_directory(f, cs, cache, out, todo) ==
  IF todo = {} THEN f
  ELSE LET path == CHOOSE p \in todo : TRUE
       IN process_directory(ProcessFile(f, cs, cache, out, path), cs, cache, out,
                            todo \ {path})

\* merge_caches run to its end from the i-th cache on, when nothing raises.
RECURSIVE merge_caches(_, _, _, _)
merge_caches(f, cs, out, i) ==
  IF i > Len(cs) THEN f
  ELSE merge_caches(process_directory(f, cs, cs[i], out, FilesUnder(f, cs[i])),
                    cs, out, i + 1)

\* The caches argument of the k-th call.
CallArg(k) == IF mode = "joint" THEN caches ELSE <<caches[k]>>
NumCalls == IF mode = "joint" THEN MaxCalls ELSE Len(caches)

\* ------------------------------------------------------------------- Init
SourceRoots(layout, n) ==
  [i \in 1..n |-> IF layout = "nested" THEN <<"d", RootNames[i]>> ELSE <<RootNames[i]>>]

Slots(roots, out) ==
  {r \o <<nm>> : r \in {roots[i] : i \in 1..Len(roots)}, nm \in Names}
    \cup {out \o <<"f.bin">>}

InitFileSystems(roots, out) ==
  UNION {{f \in [S -> UNION {ContentsFor(nm) : nm \in Names}] :
            \A p \in S : f[p] \in ContentsFor(p[Len(p)])} :
         S \in {T \in SUBSET Slots(roots, out) : Cardinality(T) <= MaxFiles}}

\* The executor is not running.
ExecOff ==
  /\ tasks = <<>>
  /\ processes = 0
  /\ tpc = <<>>
  /\ row = <<>>
  /\ test_state = <<>>
  /\ disk = {}
  /\ extcalls = <<>>
  /\ main = "off"
  /\ collected = 0

Init ==
  /\ ExecOff
  /\ \E layout \in {"flat", "nested"}, n \in 1..MaxCaches :
       /\ caches = SourceRoots(layout, n)
       /\ output_cache \in {<<"out">>} \cup (IF layout = "flat" THEN {caches[1]} ELSE {})
  /\ fs \in InitFileSystems(caches, output_cache)
  /\ fs0 = fs
  /\ fsCallStart = fs
  /\ mode \in {"joint", "each"}
  /\ call = 0
  /\ callCaches = <<>>
  /\ ci = 0
  /\ pending = {}
  /\ status = "idle"

\* ---------------------------------------------------------------- actions
\* merge_caches is called: lines 69-72 (the output directory is created; only
\* files are modelled).
StartMerge ==
  /\ status = "idle"
  /\ call < NumCalls
  /\ call' = call + 1
  /\ callCaches' = CallArg(call + 1)
  /\ fsCallStart' = fs
  /\ ci' = 0
  /\ pending' = {}
  /\ status' = "walking"
  /\ UNCHANGED evars
  /\ UNCHANGED <<fs, fs0, caches, output_cache, mode>>

\* The loop of merge_caches enters process_directory for the next cache.
NextCache ==
  /\ status = "walking"
  /\ pending = {}
  /\ ci < Len(callCaches)
  /\ ci' = ci + 1
  /\ pending' = FilesUnder(fs, callCaches[ci + 1])
  /\ UNCHANGED evars
  /\ UNCHANGED <<fs, fs0, fsCallStart, caches, output_cache, mode, call,
                 callCaches, status>>

JsonPaths(path) ==
  <<path>> \o CorrespondingPaths(fs, OtherCaches(callCaches, callCaches[ci]),
                                 RelativePath(path))

\* One iteration of the loop of process_directory over a .json file.
ProcessJson(path) ==
  /\ status = "walking"
  /\ path \in pending
  /\ PathSuffix(path) = ".json"
  /\ ~JsonRaises(fs, JsonPaths(path))
  /\ fs' = ProcessFile(fs, callCaches, callCaches[ci], output_cache, path)
  /\ pending' = pending \ {path}
  /\ UNCHANGED evars
  /\ UNCHANGED <<fs0, fsCallStart, caches, output_cache, mode, call, callCaches,
                 ci, status>>

\* The same iteration when dict.update raises: the exception leaves merge_caches.
JsonAbort(path) ==
  /\ status = "walking"
  /\ path \in pending
  /\ PathSuffix(path) = ".json"
  /\ JsonRaises(fs, JsonPaths(path))
  /\ status' = "aborted"
  /\ pending' = {}
  /\ UNCHANGED evars
  /\ UNCHANGED <<fs, fs0, fsCallStart, caches, output_cache, mode, call,
                 callCaches, ci>>

\* One iteration over a file that is neither .json nor .lock.
ProcessOpaque(path) ==
  /\ status = "walking"
  /\ path \in pending
  /\ PathSuffix(path) \notin {".json", ".lock"}
  /\ ~CopyRaises(fs, path, output_cache \o RelativePath(path))
  /\ fs' = ProcessFile(fs, callCaches, callCaches[ci], output_cache, path)
  /\ pending' = pending \ {path}
  /\ UNCHANGED evars
  /\ UNCHANGED <<fs0, fsCallStart, caches, output_cache, mode, call, callCaches,
                 ci, status>>

\* The same iteration when shutil.copy raises.
OpaqueAbort(path) ==
  /\ status = "walking"
  /\ path \in pending
  /\ PathSuffix(path) \notin {".json", ".lock"}
  /\ CopyRaises(fs, path, output_cache \o RelativePath(path))
  /\ status' = "aborted"
  /\ pending' = {}
  /\ UNCHANGED evars
  /\ UNCHANGED <<fs, fs0, fsCallStart, caches, output_cache, mode, call,
                 callCaches, ci>>

\* One iteration over a .lock file: neither branch is taken.
SkipLock(path) ==
  /\ status = "walking"
  /\ path \in pending
  /\ PathSuffix(path) = ".lock"
  /\ pending' = pending \ {path}
  /\ UNCHANGED evars
  /\ UNCHANGED <<fs, fs0, fsCallStart, caches, output_cache, mode, call,
                 callCaches, ci, status>>

\* merge_caches returns.
FinishMerge ==
  /\ status = "walking"
  /\ pending = {}
  /\ ci = Len(callCaches)
  /\ status' = "idle"
  /\ UNCHANGED evars
  /\ UNCHANGED <<fs, fs0, fsCallStart, caches, output_cache, mode, call,
                 callCaches, ci, pending>>

Next ==
  \/ StartMerge
  \/ NextCache
  \/ \E path \in pending : ProcessJson(path)
  \/ \E path \in pending : JsonAbort(path)
  \/ \E path \in pending : ProcessOpaque(path)
  \/ \E path \in pending : OpaqueAbort(path)
  \/ \E path \in pending : SkipLock(path)
  \/ FinishMerge

Spec == Init /\ [][Next]_vars

\* ------------------------------------------------- properties of the merge
\* The path of p relative to the cache root it lies under.
RelTo(root, p) == SubSeq(p, Len(root) + 1, Len(p))

Sources == {caches[i] : i \in 1..Len(caches)}

\* The sources that held a file at the relative path rel before the merge.
Holders(rel) == {i \in 1..Len(caches) : caches[i] \o rel \in DOMAIN fs0}

\* The relative paths of the source files before the merge.
SourceRelPaths ==
  UNION {{RelTo(caches[i], p) : p \in FilesUnder(fs0, caches[i])} :
         i \in 1..Len(caches)}

Max(S) == CHOOSE x \in S : \A y \in S : y <= x
Min(S) == CHOOSE x \in S : \A y \in S : x <= y

\* merge_caches(caches, output_cache) has returned once.
JointDone == mode = "joint" /\ call = 1 /\ status = "idle"

\* The value the last source that has key k gives it.
LatestValue(rel, k) ==
  LET has == {i \in Holders(rel) : fs0[caches[i] \o rel].map[k] # None}
  IN IF has = {} THEN None ELSE fs0[caches[Max(has)] \o rel].map[k]

\* The order in which the walk yields the files of a cache does not change
\* what a merge that completes leaves on disk.
WalkOrderIrrelevant ==
  JointDone => fs = merge_caches(fs0, caches, output_cache, 1)

\* C1: after merge_caches(caches, output), at every relative path where two or
\* more sources hold a .json file with a JSON object, the output file at that
\* path holds the union of the sources' keys, each with the value of the latest
\* source, in input order, that has the key.
C1_LatestSourceWins ==
  JointDone =>
    \A nm \in Names :
      LET rel == <<nm>>
      IN (/\ Suffix(nm) = ".json"
          /\ Cardinality(Holders(rel)) >= 2
          /\ \A i \in Holders(rel) : fs0[caches[i] \o rel].kind = "obj"
          /\ output_cache \o rel \in DOMAIN fs)
         => fs[output_cache \o rel] = Obj([k \in Keys |-> LatestValue(rel, k)])

\* C2: after merge_caches into an initially empty output, the relative paths of
\* the output files are exactly the relative paths of the source files that do
\* not end in .lock.
C2_OutputPathsAreNonLockSourcePaths ==
  (JointDone /\ FilesUnder(fs0, output_cache) = {})
    => {RelTo(output_cache, p) : p \in FilesUnder(fs, output_cache)}
         = {rel \in SourceRelPaths : PathSuffix(rel) # ".lock"}

\* C3: after merge_caches, an opaque relative path that several sources hold
\* with differing bytes has in the output the bytes it had there before the
\* merge, if the output had a file at that path, and otherwise the bytes of the
\* first source, in input order, that holds it.
C3_OpaqueFirstWriterWins ==
  JointDone =>
    \A nm \in Names :
      LET rel == <<nm>>
      IN (/\ Suffix(nm) \notin {".json", ".lock"}
          /\ \E i, j \in Holders(rel) : fs0[caches[i] \o rel] # fs0[caches[j] \o rel])
         => /\ output_cache \o rel \in DOMAIN fs
            /\ fs[output_cache \o rel] =
                 IF output_cache \o rel \in DOMAIN fs0
                 THEN fs0[output_cache \o rel]
                 ELSE fs0[caches[Min(Holders(rel))] \o rel]

\* C7: when merge_caches(caches, output) returns for the second time or later,
\* the file system is what it was when that call started: no file changed, no
\* path was added or removed.
C7_SecondMergeChangesNothing ==
  (mode = "joint" /\ call >= 2 /\ status = "idle") => fs = fsCallStart

\* A second merge has returned over two sources that hold differing objects at
\* one .json path and differing bytes at one opaque path, into an output the
\* first merge created.
C7_Witness ==
  /\ mode = "joint" /\ call = 2 /\ status = "idle"
  /\ Len(caches) = 2
  /\ fs0 = (<<"A", "x.json">> :> J1) @@ (<<"B", "x.json">> :> J2)
             @@ (<<"A", "f.bin">> :> Bytes("b1"))
  /\ output_cache = <<"out">>
  /\ fs # fs0

\* C8: no file under a source cache root is created, modified or deleted.
C8_SourcesNeverChange ==
  \A i \in 1..Len(caches) :
    /\ FilesUnder(fs, caches[i]) = FilesUnder(fs0, caches[i])
    /\ \A p \in FilesUnder(fs0, caches[i]) : fs[p] = fs0[p]

\* C9: a merge over sources with an unreadable file, or with a .json file that
\* is not a JSON object, does not complete, and a merge that aborts leaves the
\* file system as it was when the merge started.
C9_ErrorsAreFatalAndNeverPartial ==
  /\ status = "aborted" => fs = fsCallStart
  /\ JointDone =>
       \A i \in 1..Len(caches) : \A p \in FilesUnder(fs0, caches[i]) :
         /\ fs0[p].kind # "unreadable"
         /\ PathSuffix(p) = ".json" => fs0[p].kind = "obj"

\* Some call of the one-source-at-a-time sequence would raise.
SomeSourceRaises ==
  \E p \in DOMAIN fs0 :
    \/ PathSuffix(p) = ".json" /\ ~Updatable(fs0[p])
    \/ fs0[p].kind = "unreadable"

\* C10: merge_caches([S1]); ...; merge_caches([Sn]) into one output leaves the
\* file system as the single call merge_caches([S1..Sn]) does, and within one
\* merge a step that processes a .json relative path already processed for an
\* earlier source leaves the output file as it was.
C10_JointEqualsOneAtATime ==
  /\ [](( /\ mode = "each" /\ call = Len(caches) /\ status = "idle"
          /\ ~SomeSourceRaises)
        => fs = merge_caches(fs0, caches, output_cache, 1))
  /\ [][\A path \in pending \ pending' :
          (/\ status' = "walking"
           /\ PathSuffix(path) = ".json"
           /\ \E j \in 1..(ci - 1) :
                callCaches[j] \o RelTo(callCaches[ci], path) \in DOMAIN fs
           /\ output_cache \o RelTo(callCaches[ci], path) \in DOMAIN fs)
          => fs'[output_cache \o RelTo(callCaches[ci], path)]
               = fs[output_cache \o RelTo(callCaches[ci], path)]]_vars

\* ------------------------------------------------------ test_repo_heads.py
MaxTasks == 2       \* at most this many rows in the input csv
HashLen == 40

\* A string is the sequence of its characters.
Slugs == {<<"o", "r">>, <<"o", "/", "r">>, <<"o", "/", "q">>,
          <<"o", "/", "r", "/", "x">>, <<"o", "/">>}
\* A head hash: its length and whether all its characters are hexadecimal.
Hashes == {[len |-> HashLen - 1, hex |-> TRUE], [len |-> HashLen, hex |-> TRUE],
           [len |-> HashLen, hex |-> FALSE]}
CpuCounts == {1, 2, 4}
TestStates == {"Tests_passed", "Tests_failed", "Tests_timedout"}

num_processes(cpu_count) ==
  IF cpu_count > 3 THEN (7 * cpu_count) \div 10 ELSE cpu_count

\* "/" in repo_slug
HasSeparator(repo_slug) == \E k \in 1..Len(repo_slug) : repo_slug[k] = "/"

\* workdir_id = repo_slug + "/head-" + repo_info["repository"]
WorkdirId(repo_slug) == repo_slug \o <<"/", "h", "e", "a", "d", "-">> \o repo_slug

\* repo.repo_path: the working directory of a Repository, keyed by the slug
\* and the workdir id it was constructed with.
RepoPath(repo_slug) == <<repo_slug, WorkdirId(repo_slug)>>

NoRow == [result |-> None, fingerprint |-> "absent"]

MergeOff ==
  /\ fs = <<>>
  /\ fs0 = <<>>
  /\ fsCallStart = <<>>
  /\ caches = <<>>
  /\ output_cache = <<>>
  /\ mode = "off"
  /\ call = 0
  /\ callCaches = <<>>
  /\ ci = 0
  /\ pending = {}
  /\ status = "off"

InitExec ==
  /\ MergeOff
  /\ \E n \in 0..MaxTasks :
       /\ tasks \in [1..n -> [repository : Slugs, head_hash : Hashes]]
       /\ tpc = [i \in 1..n |-> "queued"]
       /\ row = [i \in 1..n |-> NoRow]
       /\ test_state = [i \in 1..n |-> None]
       /\ extcalls = [i \in 1..n |-> 0]
  /\ processes \in {num_processes(c) : c \in CpuCounts}
  /\ disk = {}
  /\ main = "collecting"
  /\ collected = 0

Running(i) == tpc[i] \in {"load", "test", "clone", "assert", "cleanup"}

\* pool.imap hands the next task to an idle worker.
CanStart(i) ==
  /\ main = "collecting"
  /\ tpc[i] = "queued"
  /\ \A j \in 1..(i - 1) : tpc[j] # "queued"
  /\ Cardinality({j \in 1..Len(tasks) : Running(j)}) < processes

\* head_passes_tests, lines 51-55: the slug has no separator.
StartWrongFormat(i) ==
  /\ CanStart(i)
  /\ ~HasSeparator(tasks[i].repository)
  /\ row' = [row EXCEPT ![i].result = "Wrong format"]
  /\ tpc' = [tpc EXCEPT ![i] = "returned"]
  /\ UNCHANGED mvars
  /\ UNCHANGED <<tasks, processes, test_state, disk, extcalls, main, collected>>

\* head_passes_tests, lines 57-59: the hash is not 40 characters long.
StartInvalidHash(i) ==
  /\ CanStart(i)
  /\ HasSeparator(tasks[i].repository)
  /\ tasks[i].head_hash.len # HashLen
  /\ row' = [row EXCEPT ![i].result = "No valid head hash"]
  /\ tpc' = [tpc EXCEPT ![i] = "returned"]
  /\ UNCHANGED mvars
  /\ UNCHANGED <<tasks, processes, test_state, disk, extcalls, main, collected>>

\* head_passes_tests, line 61: both checks passed.
StartValid(i) ==
  /\ CanStart(i)
  /\ HasSeparator(tasks[i].repository)
  /\ tasks[i].head_hash.len = HashLen
  /\ tpc' = [tpc EXCEPT ![i] = "load"]
  /\ UNCHANGED mvars
  /\ UNCHANGED <<tasks, processes, row, test_state, disk, extcalls, main, collected>>

\* Repository(...) returns (lazy_clone: nothing is fetched).
LoadRepo(i) ==
  /\ main = "collecting"
  /\ tpc[i] = "load"
  /\ extcalls' = [extcalls EXCEPT ![i] = @ + 1]
  /\ tpc' = [tpc EXCEPT ![i] = "test"]
  /\ UNCHANGED mvars
  /\ UNCHANGED <<tasks, processes, row, test_state, disk, main, collected>>

\* Repository(...) raises: the except clause of lines 71-75 returns the row.
LoadRepoRaises(i) ==
  /\ main = "collecting"
  /\ tpc[i] = "load"
  /\ extcalls' = [extcalls EXCEPT ![i] = @ + 1]
  /\ row' = [row EXCEPT ![i] = [result |-> "Git_checkout_failed", fingerprint |-> None]]
  /\ tpc' = [tpc EXCEPT ![i] = "returned"]
  /\ UNCHANGED mvars
  /\ UNCHANGED <<tasks, processes, test_state, disk, main, collected>>

\* repo.checkout_and_test returns a state and a fingerprint; the working
\* directory is materialised on the way, or not (a cached result).
CheckoutAndTest(i) ==
  /\ main = "collecting"
  /\ tpc[i] = "test"
  /\ \E s \in TestStates, materialised \in BOOLEAN :
       /\ test_state' = [test_state EXCEPT ![i] = s]
       /\ disk' = IF materialised THEN disk \cup {RepoPath(tasks[i].repository)} ELSE disk
       /\ tpc' = [tpc EXCEPT ![i] = IF s = "Tests_passed" THEN "clone" ELSE "cleanup"]
  /\ row' = [row EXCEPT ![i].fingerprint = "fp"]
  /\ extcalls' = [extcalls EXCEPT ![i] = @ + 1]
  /\ UNCHANGED mvars
  /\ UNCHANGED <<tasks, processes, main, collected>>

\* repo.checkout_and_test raises: no handler in head_passes_tests.
CheckoutAndTestRaises(i) ==
  /\ main = "collecting"
  /\ tpc[i] = "test"
  /\ extcalls' = [extcalls EXCEPT ![i] = @ + 1]
  /\ tpc' = [tpc EXCEPT ![i] = "raised"]
  /\ UNCHANGED mvars
  /\ UNCHANGED <<tasks, processes, row, test_state, disk, main, collected>>

\* repo.clone_repo() returns: the working directory exists.
CloneRepo(i) ==
  /\ main = "collecting"
  /\ tpc[i] = "clone"
  /\ disk' = disk \cup {RepoPath(tasks[i].repository)}
  /\ extcalls' = [extcalls EXCEPT ![i] = @ + 1]
  /\ tpc' = [tpc EXCEPT ![i] = "assert"]
  /\ UNCHANGED mvars
  /\ UNCHANGED <<tasks, processes, row, test_state, main, collected>>

\* repo.clone_repo() raises: no handler in head_passes_tests.
CloneRepoRaises(i) ==
  /\ main = "collecting"
  /\ tpc[i] = "clone"
  /\ extcalls' = [extcalls EXCEPT ![i] = @ + 1]
  /\ tpc' = [tpc EXCEPT ![i] = "raised"]
  /\ UNCHANGED mvars
  /\ UNCHANGED <<tasks, processes, row, test_state, disk, main, collected>>

\* assert repo.repo_path.exists() holds (lines 84-87); lines 91-94 return the row.
AssertExists(i) ==
  /\ main = "collecting"
  /\ tpc[i] = "assert"
  /\ RepoPath(tasks[i].repository) \in disk
  /\ row' = [row EXCEPT ![i].result = test_state[i]]
  /\ tpc' = [tpc EXCEPT ![i] = "returned"]
  /\ UNCHANGED mvars
  /\ UNCHANGED <<tasks, processes, test_state, disk, extcalls, main, collected>>

\* assert repo.repo_path.exists() fails (lines 84-87): AssertionError leaves the task.
AssertFails(i) ==
  /\ main = "collecting"
  /\ tpc[i] = "assert"
  /\ RepoPath(tasks[i].repository) \notin disk
  /\ tpc' = [tpc EXCEPT ![i] = "raised"]
  /\ UNCHANGED mvars
  /\ UNCHANGED <<tasks, processes, row, test_state, disk, extcalls, main, collected>>

\* shutil.rmtree(repo.repo_path, ignore_errors=True), line 89; lines 91-94 return the row.
Cleanup(i) ==
  /\ main = "collecting"
  /\ tpc[i] = "cleanup"
  /\ disk' = disk \ {RepoPath(tasks[i].repository)}
  /\ row' = [row EXCEPT ![i].result = test_state[i]]
  /\ tpc' = [tpc EXCEPT ![i] = "returned"]
  /\ UNCHANGED mvars
  /\ UNCHANGED <<tasks, processes, test_state, extcalls, main, collected>>

\* list(pool.imap(...)) takes the next result, in input order.
Collect ==
  /\ main = "collecting"
  /\ collected < Len(tasks)
  /\ tpc[collected + 1] = "returned"
  /\ collected' = collected + 1
  /\ UNCHANGED mvars
  /\ UNCHANGED <<tasks, processes, tpc, row, test_state, disk, extcalls, main>>

\* The next result is an exception: imap re-raises it in the parent, and
\* leaving the with block terminates the pool.
PoolRaise ==
  /\ main = "collecting"
  /\ collected < Len(tasks)
  /\ tpc[collected + 1] = "raised"
  /\ main' = "crashed"
  /\ tpc' = [j \in 1..Len(tasks) |->
               IF tpc[j] \in {"returned", "raised"} THEN tpc[j] ELSE "killed"]
  /\ UNCHANGED mvars
  /\ UNCHANGED <<tasks, processes, row, test_state, disk, extcalls, collected>>

\* Lines 120-136 with a passing row: both csv files are written.
WriteResults ==
  /\ main = "collecting"
  /\ collected = Len(tasks)
  /\ \E i \in 1..Len(tasks) : row[i].result = "Tests_passed"
  /\ main' = "written"
  /\ UNCHANGED mvars
  /\ UNCHANGED <<tasks, processes, tpc, row, test_state, disk, extcalls, collected>>

\* Lines 130-131: no passing row, the script raises.
NoPass ==
  /\ main = "collecting"
  /\ collected = Len(tasks)
  /\ \A i \in 1..Len(tasks) : row[i].result # "Tests_passed"
  /\ main' = "no_pass"
  /\ UNCHANGED mvars
  /\ UNCHANGED <<tasks, processes, tpc, row, test_state, disk, extcalls, collected>>

NextExec ==
  \/ \E i \in 1..Len(tasks) : StartWrongFormat(i)
  \/ \E i \in 1..Len(tasks) : StartInvalidHash(i)
  \/ \E i \in 1..Len(tasks) : StartValid(i)
  \/ \E i \in 1..Len(tasks) : LoadRepo(i)
  \/ \E i \in 1..Len(tasks) : LoadRepoRaises(i)
  \/ \E i \in 1..Len(tasks) : CheckoutAndTest(i)
  \/ \E i \in 1..Len(tasks) : CheckoutAndTestRaises(i)
  \/ \E i \in 1..Len(tasks) : CloneRepo(i)
  \/ \E i \in 1..Len(tasks) : CloneRepoRaises(i)
  \/ \E i \in 1..Len(tasks) : AssertExists(i)
  \/ \E i \in 1..Len(tasks) : AssertFails(i)
  \/ \E i \in 1..Len(tasks) : Cleanup(i)
  \/ Collect
  \/ PoolRaise
  \/ WriteResults
  \/ NoPass

SpecExec == InitExec /\ [][NextExec]_vars

\* ----------------------------------------------- properties of the executor
\* Exactly one separator between two non-empty components.
WellFormedSlug(repo_slug) ==
  /\ Cardinality({k \in 1..Len(repo_slug) : repo_slug[k] = "/"}) = 1
  /\ repo_slug[1] # "/"
  /\ repo_slug[Len(repo_slug)] # "/"

\* Exactly 40 hexadecimal characters.
WellFormedHash(head_hash) == head_hash.len = HashLen /\ head_hash.hex

\* The parent is past the pool: every result was taken.
RunOver == main \in {"written", "no_pass"}

\* Every task of the run is well formed.
AllWellFormed ==
  \A i \in 1..Len(tasks) :
    WellFormedSlug(tasks[i].repository) /\ WellFormedHash(tasks[i].head_hash)

\* C4: a task whose slug is not two non-empty components around one separator,
\* or whose hash is not 40 hexadecimal characters, never gets past the two
\* format checks: it makes no call to Repository, checkout_and_test or
\* clone_repo, and what it returns is a format outcome.
C4_MalformedNeverReachesRunner ==
  \A i \in 1..Len(tasks) :
    (~WellFormedSlug(tasks[i].repository) \/ ~WellFormedHash(tasks[i].head_hash))
      => /\ extcalls[i] = 0
         /\ tpc[i] \in {"queued", "returned"}
         /\ tpc[i] = "returned" =>
              row[i].result \in {"Wrong format", "No valid head hash"}

\* C5: in a run of well-formed tasks no failure leaves a task: no call of
\* head_passes_tests ends with an exception, the parent never takes an
\* exception from the pool, no task is terminated, and when the run is over
\* every task has a result row.
C5_FailuresStayInsideTheTask ==
  AllWellFormed =>
    /\ main # "crashed"
    /\ \A i \in 1..Len(tasks) : tpc[i] \notin {"raised", "killed"}
    /\ RunOver => \A i \in 1..Len(tasks) : row[i].result # None

\* C6: when a run of well-formed tasks is over, the working directory of every
\* task that was tested exists exactly when the task's outcome is Tests_passed.
C6_WorkdirExistsIffPassed ==
  (AllWellFormed /\ RunOver) =>
    \A i \in 1..Len(tasks) :
      test_state[i] # None =>
        ((row[i].result = "Tests_passed") <=> (RepoPath(tasks[i].repository) \in disk))

====
